---- MODULE Spec2Model ----
(***************************************************************************)
(* A model of the user controller of synctalk                              *)
(* (server/src/controller/user.js): registerUser, loginUser, updateUser,   *)
(* findUsers and followUser acting on the User, Followers and Following    *)
(* collections.                                                            *)
(*                                                                         *)
(* A collection is a function from the ids that have a document to the     *)
(* document.  A username is a sequence of characters, so that              *)
(* toLowerCase() and the whitespace test are computed; the other strings   *)
(* are TLA+ strings with "" the falsy (missing) value.                     *)
(*                                                                         *)
(*   users, followers, following  the three collections                    *)
(*   last    the outcome of the last request served as a whole: what was   *)
(*           asked, what was answered, and the collections it found        *)
(*   plain   for each user, the password it registered with (history)      *)
(*   reqs    the followUser requests in flight, where they interleave      *)
(*                                                                         *)
(* Spec serves requests one at a time with every write and jwt.sign        *)
(* succeeding; SpecFail serves them one at a time with writes and jwt.sign *)
(* that may fail; SpecConc interleaves followUser requests at their awaits.*)
(***************************************************************************)
EXTENDS Integers, Sequences, FiniteSets, TLC

VARIABLES users, followers, following, last, plain, reqs

vars == <<users, followers, following, last, plain, reqs>>
store == <<users, followers, following>>

----------------------------------------------------------------------------
(* Bounds of the model *)

MaxUsers == 2
MaxLen == 3
NReq == 2

(* The id of an authenticated caller whose User document does not exist. *)
Ghost == MaxUsers + 1

UserIds == 1..MaxUsers
Ids == {Ghost} \cup UserIds
Slots == 1..NReq

(* Request inputs *)
Names == {"", "Jon"}
Usernames == {<<>>, <<"j", "o">>, <<"J", "o">>, <<"j", " ">>, <<"o">>}
Emails == {"", "jon@x.com", "o@x.com"}
Passwords == {"", "pw123"}
LoginPasswords == {"pw123", "wrong"}


(* updateUser patches: req.file.path, and name, username, email of req.body *)
Patches ==
    {[file |-> "", name |-> "", username |-> <<>>, email |-> ""],
     [file |-> "uploads/a.png", name |-> "", username |-> <<>>, email |-> ""],
     [file |-> "", name |-> "Al", username |-> <<>>, email |-> ""],
     [file |-> "", name |-> "", username |-> <<"a", "l">>, email |-> "al@x.com"],
     [file |-> "uploads/a.png", name |-> "Al", username |-> <<"o">>, email |-> "o@x.com"]}

(* findUsers username queries (a regular expression source, matched with "i") *)
Searches == {<<>>, <<"O">>, <<"j", "o">>, <<"a">>}

----------------------------------------------------------------------------
(* HTTP status codes (lib/util HttpStatusCode) and messages *)

OK == 200
CREATED == 201
BAD_REQUEST == 400
UNAUTHORIZED == 401
NOT_FOUND == 404
CONFLICT == 409

(* The status of an error that is not a CustomError, and of no answer *)
NoStatus == 0

----------------------------------------------------------------------------
(* String helpers *)

LowerChar(c) == CASE c = "J" -> "j" [] c = "O" -> "o" [] c = "A" -> "a" [] OTHER -> c

ToLowerCase(s) == [i \in 1..Len(s) |-> LowerChar(s[i])]

HasWhitespace(s) == \E i \in 1..Len(s) : s[i] = " "

(* s matches the regular expression pat with option "i": pat occurs in s. *)
RegexMatchI(s, pat) ==
    \E k \in 0..(Len(s) - Len(pat)) :
        \A i \in 1..Len(pat) : LowerChar(s[k + i]) = LowerChar(pat[i])

----------------------------------------------------------------------------
(* Password hashing and the avatar reference *)

BcryptHash(password) == "$2a$10$" \o password

BcryptCompare_Plain(password, hash) == hash = password

BcryptCompare(password, hash) == hash = BcryptHash(password)

getGravatar(email) == "gravatar/" \o email

----------------------------------------------------------------------------
(* Array helpers on the follower / following arrays *)

Includes(list, id) == \E i \in 1..Len(list) : list[i] = id

Filter(list, id) == SelectSeq(list, LAMBDA x : x # id)

Push(list, id) == Append(list, id)

(* The array of the document of `id` in collection `coll`, [] for a new one *)
ListOf(coll, id) == IF id \in DOMAIN coll THEN coll[id] ELSE <<>>

Saved_IgnoresFailure(ok, coll, id, list) == (id :> list) @@ coll

(* document.save(): the collection after the document of `id` was written, or
   as it was when the write failed *)
Saved(ok, coll, id, list) == IF ok THEN (id :> list) @@ coll ELSE coll

----------------------------------------------------------------------------
(* The outcome of the last request *)

NoToken == [id |-> -1, username |-> <<>>]
NoSnap == <<>>
NoInput == [name |-> "", username |-> <<>>, password |-> "", email |-> ""]

Outcome(op, actor, target, status, nres, nnext, msg) ==
    [op |-> op, actor |-> actor, target |-> target, status |-> status,
     nres |-> nres, nnext |-> nnext, msg |-> msg,
     token |-> NoToken, found |-> {}, saved |-> {}, input |-> NoInput,
     preUsers |-> NoSnap, preFing |-> NoSnap, preFer |-> NoSnap]

NoOutcome == Outcome("none", -1, -1, NoStatus, 0, 0, "")

(* res.status(s).json(...) *)
Respond(op, actor, target, status, msg) == Outcome(op, actor, target, status, 1, 0, msg)

(* next(error) *)
Forward(op, actor, target, status, msg) == Outcome(op, actor, target, status, 0, 1, msg)

(* The outcome `o` of a request with body `input`, with the collections as the
   request found them *)
Served(o, input) ==
    [o EXCEPT !.input = input, !.preUsers = users,
              !.preFing = following, !.preFer = followers]

(* A followUser request in flight: where it stands, its parameters, the two
   documents it holds and what it has answered *)
IdleReq == [pc |-> "idle", actor |-> -1, target |-> -1, followerList |-> <<>>,
            followingList |-> <<>>, isFollowing |-> FALSE,
            fingSaved |-> FALSE, ferSaved |-> FALSE, nres |-> 0, nnext |-> 0,
            status |-> NoStatus, msg |-> ""]

(* req.user._id: the id in a verified token.  Ids are never reused, so a
   caller is a registered user or Ghost, never an id still to be allocated. *)
Callers == DOMAIN users \cup {Ghost}

Init ==
    /\ users = <<>>
    /\ followers = <<>>
    /\ following = <<>>
    /\ plain = <<>>
    /\ last = NoOutcome
    /\ reqs = [s \in Slots |-> IdleReq]

----------------------------------------------------------------------------
(* registerUser *)

UsernameOrEmailExists_UsernameOnly(username, email) ==
    \E id \in DOMAIN users : users[id].username = username

UsernameOrEmailExists(username, email) ==
    \E id \in DOMAIN users : users[id].username = username \/ users[id].email = email

NewId == CHOOSE id \in UserIds \ DOMAIN users :
            \A other \in UserIds \ DOMAIN users : id <= other

(* The pre-save hook of the User model stores the salted hash of the password *)
PreSaveHash(password) == BcryptHash(password)

NewUser(name, username, password, email) ==
    [name |-> name, username |-> username, password |-> PreSaveHash(password),
     email |-> email, profilePicture |-> getGravatar(email)]

(* userOk, fersOk, fingOk: whether newUser.save(), followers.save() and
   following.save() succeed *)
RegisterUserOp(name, username, password, email, userOk, fersOk, fingOk) ==
    LET input == [name |-> name, username |-> username, password |-> password,
                  email |-> email]
    IN
    /\ UNCHANGED reqs
    /\ IF name = "" \/ username = <<>> \/ password = "" \/ email = ""
       THEN /\ last' = Served(Forward("register", -1, -1, BAD_REQUEST,
                                      "Fields are required"), input)
            /\ UNCHANGED <<users, followers, following, plain>>
       ELSE IF username # ToLowerCase(username) \/ HasWhitespace(username)
       THEN /\ last' = Served(Forward("register", -1, -1, BAD_REQUEST,
                                      "Username must be lowercase"), input)
            /\ UNCHANGED <<users, followers, following, plain>>
       ELSE IF UsernameOrEmailExists(username, email)
       THEN /\ last' = Served(Forward("register", -1, -1, CONFLICT,
                                      "Username or email already exists"), input)
            /\ UNCHANGED <<users, followers, following, plain>>
       ELSE /\ UserIds \ DOMAIN users # {}
            /\ IF ~userOk
               THEN /\ last' = Served(Forward("register", -1, -1, NoStatus, "save failed"),
                                      input)
                    /\ UNCHANGED <<users, followers, following, plain>>
               ELSE LET id == NewId IN
                    /\ users' = (id :> NewUser(name, username, password, email)) @@ users
                    /\ plain' = (id :> password) @@ plain
                    /\ followers' = Saved(fersOk, followers, id, <<>>)
                    /\ following' = Saved(fingOk, following, id, <<>>)
                    /\ last' = Served(IF fersOk /\ fingOk
                                      THEN Respond("register", id, -1, CREATED, "")
                                      ELSE Forward("register", id, -1, NoStatus, "save failed"),
                                      input)

RegisterUser ==
    \E name \in Names, username \in Usernames, password \in Passwords, email \in Emails :
        RegisterUserOp(name, username, password, email, TRUE, TRUE, TRUE)

----------------------------------------------------------------------------
(* loginUser *)

FindByUsername_Any(username) == DOMAIN users

FindByUsername(username) == {id \in DOMAIN users : users[id].username = username}

(* sign: how jwt.sign calls its callback: "ok" with a token, "syncErr" with
   an error before jwt.sign returns, "asyncErr" with an error after it
   returned.  The callback rethrows the error: inside the try block in the
   first case, outside of it in the second. *)
LoginUserOp(username, password, sign) ==
    LET input == [NoInput EXCEPT !.username = username, !.password = password]
    IN
    /\ UNCHANGED <<users, followers, following, plain, reqs>>
    /\ IF FindByUsername(username) = {}
       THEN last' = Served(Forward("login", -1, -1, NOT_FOUND, "User not found"), input)
       ELSE \E id \in FindByUsername(username) :
            IF ~BcryptCompare(password, users[id].password)
            THEN last' = Served(Forward("login", id, -1, UNAUTHORIZED, "Invalid credentials"),
                                input)
            ELSE CASE sign = "ok" ->
                        last' = Served([Respond("login", id, -1, OK, "") EXCEPT
                                    !.token = [id |-> id, username |-> users[id].username]],
                                    input)
                   [] sign = "syncErr" ->
                        last' = Served(Forward("login", id, -1, NoStatus, "sign error"), input)
                   [] OTHER ->
                        last' = Served(Outcome("login", id, -1, NoStatus, 0, 0,
                                               "uncaught sign error"), input)

LoginUser ==
    \E username \in Usernames, password \in LoginPasswords :
        LoginUserOp(username, password, "ok")

----------------------------------------------------------------------------
(* updateUser *)

(* Whether `password` is a declared identifier where line 129 reads it: the
   destructuring of req.body on line 125 does not bind it. *)
PasswordDeclared == FALSE

Patched(user, file, name, username, email) ==
    [user EXCEPT !.profilePicture = IF file # "" THEN file ELSE @,
                 !.name = IF name # "" THEN name ELSE @,
                 !.username = IF username # <<>> THEN username ELSE @,
                 !.email = IF email # "" THEN email ELSE @]

UpdateUserOp(actor, file, name, username, email) ==
    /\ UNCHANGED <<followers, following, plain, reqs>>
    /\ IF actor \notin DOMAIN users
       THEN /\ last' = Forward("update", actor, -1, NOT_FOUND, "User not found")
            /\ UNCHANGED users
       ELSE IF ~PasswordDeclared
       THEN /\ last' = Forward("update", actor, -1, NoStatus, "ReferenceError")
            /\ UNCHANGED users
       ELSE /\ users' = [users EXCEPT ![actor] = Patched(@, file, name, username, email)]
            /\ last' = Respond("update", actor, -1, OK, "")

UpdateUser ==
    \E actor \in Callers, patch \in Patches :
        UpdateUserOp(actor, patch.file, patch.name, patch.username, patch.email)

----------------------------------------------------------------------------
(* findUsers: userId = -1 and username = <<>> stand for an absent query field *)

FindUsersOp(actor, userId, username) ==
    /\ UNCHANGED <<users, followers, following, plain, reqs>>
    /\ IF userId # -1
       THEN IF userId \notin DOMAIN users
            THEN last' = Respond("find", actor, userId, NOT_FOUND, "User not found")
            ELSE last' = [Respond("find", actor, userId, OK, "") EXCEPT !.found = {userId}]
       ELSE IF username # <<>>
       THEN LET found == {id \in DOMAIN users :
                            RegexMatchI(users[id].username, username) /\ id # actor}
            IN IF found = {}
               THEN last' = Respond("find", actor, -1, NOT_FOUND, "No users found")
               ELSE last' = [Respond("find", actor, -1, OK, "") EXCEPT !.found = found]
       ELSE last' = [Respond("find", actor, -1, OK, "") EXCEPT
                        !.found = DOMAIN users \ {actor}]

(* req.query: by id, by username, both (the id wins), or neither *)
FindQueries ==
    {[userId |-> id, username |-> <<>>] : id \in Ids}
        \cup {[userId |-> -1, username |-> u] : u \in Searches}
        \cup {[userId |-> Ghost, username |-> <<"o">>]}

FindUsers ==
    \E actor \in Callers, q \in FindQueries : FindUsersOp(actor, q.userId, q.username)

----------------------------------------------------------------------------
(* followUser, as one request running alone *)

IsSelf_Never(actor, target) == FALSE

(* The comparison of req.user._id.toString() with req.params.userId *)
IsSelf(actor, target) == actor = target

IsFollowing(followingList, target) == Includes(followingList, target)

NewFollowing_NoRemove(followingList, target) ==
    IF IsFollowing(followingList, target)
    THEN followingList
    ELSE Push(followingList, target)

NewFollowing(followingList, target) ==
    IF IsFollowing(followingList, target)
    THEN Filter(followingList, target)
    ELSE Push(followingList, target)

NewFollowers_NoRemove(followerList, followingList, actor, target) ==
    IF IsFollowing(followingList, target)
    THEN followerList
    ELSE Push(followerList, actor)

NewFollowers(followerList, followingList, actor, target) ==
    IF IsFollowing(followingList, target)
    THEN Filter(followerList, actor)
    ELSE Push(followerList, actor)

FollowMessage(isFollowing) ==
    IF isFollowing THEN "User unfollowed successfully" ELSE "User followed successfully"

(* fingOk, ferOk: whether followingList.save() and followerList.save() succeed *)
FollowUserOp(actor, target, fingOk, ferOk) ==
    /\ UNCHANGED <<users, plain, reqs>>
    /\ IF IsSelf(actor, target)
       THEN /\ last' = [Respond("follow", actor, target, BAD_REQUEST,
                                "You cannot follow yourself.") EXCEPT
                            !.preFing = following, !.preFer = followers]
            /\ UNCHANGED <<followers, following>>
       ELSE IF target \notin DOMAIN users
       THEN /\ last' = [Forward("follow", actor, target, NOT_FOUND, "User not found") EXCEPT
                            !.preFing = following, !.preFer = followers]
            /\ UNCHANGED <<followers, following>>
       ELSE LET followerList == ListOf(followers, target)
                followingList == ListOf(following, actor)
                isFollowing == IsFollowing(followingList, target)
            IN /\ isFollowing \/ (Len(followingList) < MaxLen /\ Len(followerList) < MaxLen)
               /\ following' = Saved(fingOk, following, actor,
                                      NewFollowing(followingList, target))
               /\ followers' = Saved(ferOk, followers, target,
                                      NewFollowers(followerList, followingList, actor, target))
               /\ last' = [(IF fingOk /\ ferOk
                            THEN Respond("follow", actor, target, OK, FollowMessage(isFollowing))
                            ELSE Forward("follow", actor, target, NoStatus, "save failed"))
                           EXCEPT !.preFing = following, !.preFer = followers,
                                  !.saved = {w \in {"following"} : fingOk}
                                                \cup {w \in {"followers"} : ferOk}]

FollowUser ==
    \E actor \in Callers, target \in Ids : FollowUserOp(actor, target, TRUE, TRUE)

----------------------------------------------------------------------------
(* Requests served one at a time, every database write and jwt.sign succeeding *)

Next ==
    \/ RegisterUser
    \/ LoginUser
    \/ UpdateUser
    \/ FindUsers
    \/ FollowUser

Spec == Init /\ [][Next]_vars

----------------------------------------------------------------------------
(* Requests served one at a time, where a database write may fail and jwt.sign
   may hand an error to its callback *)

WellFormedUsername(u) == u # <<>> /\ u = ToLowerCase(u) /\ ~HasWhitespace(u)

SignResults == {"ok", "syncErr", "asyncErr"}

(* A save can only fail where it is reached: the requests drawn here are
   well-formed, and the faults are drawn when username and email are fresh *)
RegisterUserF ==
    \E name \in Names \ {""}, username \in {u \in Usernames : WellFormedUsername(u)},
       password \in Passwords \ {""}, email \in Emails \ {""},
       userOk \in BOOLEAN, fersOk \in BOOLEAN, fingOk \in BOOLEAN :
        /\ (userOk /\ fersOk /\ fingOk) \/ ~UsernameOrEmailExists(username, email)
        /\ RegisterUserOp(name, username, password, email, userOk, fersOk, fingOk)

LoginUserF ==
    \E username \in Usernames, password \in LoginPasswords, sign \in SignResults :
        LoginUserOp(username, password, sign)

FollowUserF ==
    \E actor \in DOMAIN users, target \in Ids, fingOk \in BOOLEAN, ferOk \in BOOLEAN :
        FollowUserOp(actor, target, fingOk, ferOk)

NextFail ==
    \/ RegisterUserF
    \/ LoginUserF
    \/ UpdateUser
    \/ FindUsers
    \/ FollowUserF

SpecFail == Init /\ [][NextFail]_vars

----------------------------------------------------------------------------
(* followUser requests running concurrently: a request gives way at each await
   (User.findById, Followers.findOne, Following.findOne, and the two saves
   started together under Promise.all).  Each slot serves one request. *)

AllIdle == \A s \in Slots : reqs[s].pc = "idle"

(* Requests served alone before the concurrent ones start *)
RegisterFirst == AllIdle /\ RegisterUser

FollowFirst ==
    /\ AllIdle
    /\ \E actor \in DOMAIN users, target \in Ids : FollowUserOp(actor, target, TRUE, TRUE)

Begin(s) ==
    /\ reqs[s].pc = "idle"
    /\ \E actor \in DOMAIN users, target \in Ids :
        reqs' = [reqs EXCEPT ![s] =
                    IF IsSelf(actor, target)
                    THEN [@ EXCEPT !.pc = "done", !.actor = actor, !.target = target,
                                   !.nres = 1, !.status = BAD_REQUEST,
                                   !.msg = "You cannot follow yourself."]
                    ELSE [@ EXCEPT !.pc = "findUser", !.actor = actor, !.target = target]]
    /\ last' = NoOutcome
    /\ UNCHANGED <<users, followers, following, plain>>

FindUser(s) ==
    /\ reqs[s].pc = "findUser"
    /\ reqs' = [reqs EXCEPT ![s] =
                    IF reqs[s].target \notin DOMAIN users
                    THEN [@ EXCEPT !.pc = "done", !.nnext = 1, !.status = NOT_FOUND,
                                   !.msg = "User not found"]
                    ELSE [@ EXCEPT !.pc = "findFollowers"]]
    /\ UNCHANGED <<users, followers, following, plain, last>>

FindFollowers(s) ==
    /\ reqs[s].pc = "findFollowers"
    /\ reqs' = [reqs EXCEPT ![s] =
                    [@ EXCEPT !.pc = "findFollowing",
                              !.followerList = ListOf(followers, reqs[s].target)]]
    /\ UNCHANGED <<users, followers, following, plain, last>>

(* Following.findOne, then the decision and the change of both documents in
   memory, up to the call of Promise.all *)
FindFollowing(s) ==
    /\ reqs[s].pc = "findFollowing"
    /\ LET r == reqs[s]
           followingList == ListOf(following, r.actor)
           isFollowing == IsFollowing(followingList, r.target)
       IN /\ isFollowing \/ (Len(followingList) < MaxLen /\ Len(r.followerList) < MaxLen)
          /\ reqs' = [reqs EXCEPT ![s] =
                [@ EXCEPT !.pc = "save", !.isFollowing = isFollowing,
                          !.followingList = NewFollowing(followingList, r.target),
                          !.followerList = NewFollowers(r.followerList, followingList,
                                                        r.actor, r.target)]]
    /\ UNCHANGED <<users, followers, following, plain, last>>

SaveFollowing_WithFollowers(s) ==
    /\ reqs[s].pc = "save" /\ ~reqs[s].fingSaved
    /\ following' = Saved(TRUE, following, reqs[s].actor, reqs[s].followingList)
    /\ followers' = Saved(TRUE, followers, reqs[s].target, reqs[s].followerList)
    /\ reqs' = [reqs EXCEPT ![s] = [@ EXCEPT !.fingSaved = TRUE, !.ferSaved = TRUE]]
    /\ UNCHANGED <<users, plain, last>>

(* followingList.save() *)
SaveFollowing(s) ==
    /\ reqs[s].pc = "save" /\ ~reqs[s].fingSaved
    /\ following' = Saved(TRUE, following, reqs[s].actor, reqs[s].followingList)
    /\ reqs' = [reqs EXCEPT ![s] = [@ EXCEPT !.fingSaved = TRUE]]
    /\ UNCHANGED <<users, followers, plain, last>>

(* followerList.save() *)
SaveFollowers(s) ==
    /\ reqs[s].pc = "save" /\ ~reqs[s].ferSaved
    /\ followers' = Saved(TRUE, followers, reqs[s].target, reqs[s].followerList)
    /\ reqs' = [reqs EXCEPT ![s] = [@ EXCEPT !.ferSaved = TRUE]]
    /\ UNCHANGED <<users, following, plain, last>>

(* Promise.all resolved: the response *)
Finish(s) ==
    /\ reqs[s].pc = "save" /\ reqs[s].fingSaved /\ reqs[s].ferSaved
    /\ reqs' = [reqs EXCEPT ![s] =
                    [@ EXCEPT !.pc = "done", !.nres = 1, !.status = OK,
                              !.msg = FollowMessage(reqs[s].isFollowing)]]
    /\ UNCHANGED <<users, followers, following, plain, last>>

NextConc ==
    \/ RegisterFirst
    \/ FollowFirst
    \/ \E s \in Slots : Begin(s)
    \/ \E s \in Slots : FindUser(s)
    \/ \E s \in Slots : FindFollowers(s)
    \/ \E s \in Slots : FindFollowing(s)
    \/ \E s \in Slots : SaveFollowing(s)
    \/ \E s \in Slots : SaveFollowers(s)
    \/ \E s \in Slots : Finish(s)

SpecConc == Init /\ [][NextConc]_vars

----------------------------------------------------------------------------
(* Properties *)

Follows(a, b) == Includes(ListOf(following, a), b)
FollowedBy(b, a) == Includes(ListOf(followers, b), a)

Symmetric == \A a \in Ids, b \in Ids : Follows(a, b) <=> FollowedBy(b, a)

Edges == {e \in Ids \X Ids : Follows(e[1], e[2])}

Followed == FollowMessage(FALSE)
Unfollowed == FollowMessage(TRUE)

(* C1: with requests served one at a time and every write succeeding, b is in
   a's following list iff a is in b's follower list, for all a and b; and
   right after a toggle that follows, both memberships hold. *)
C1_SymmetricFollow ==
    /\ Symmetric
    /\ (last.op = "follow" /\ last.status = OK /\ last.msg = Followed)
          => (Follows(last.actor, last.target) /\ FollowedBy(last.target, last.actor))

C1_Witness ==
    /\ last.op = "follow" /\ last.status = OK /\ last.msg = Followed
    /\ Cardinality(Edges) >= 3

(* C2: when a does not follow b, toggleFollow(a, b) directly followed by
   toggleFollow(a, b) reports a follow and then an unfollow, and leaves b out
   of a's following list, a out of b's follower list, and every list as it
   was before the first call. *)
C2_DoubleToggle ==
    [][(/\ last.op = "follow" /\ last.status = OK /\ last.msg = Followed
        /\ ~Includes(ListOf(last.preFing, last.actor), last.target)
        /\ last'.op = "follow" /\ last'.actor = last.actor /\ last'.target = last.target)
       => (/\ last'.status = OK /\ last'.msg = Unfollowed
           /\ ~Includes(ListOf(following', last.actor), last.target)
           /\ ~Includes(ListOf(followers', last.target), last.actor)
           /\ \A id \in Ids :
                /\ ListOf(following', id) = ListOf(last.preFing, id)
                /\ ListOf(followers', id) = ListOf(last.preFer, id)
           /\ users' = users)]_vars

C2_Witness ==
    /\ last.op = "follow" /\ last.status = OK /\ last.msg = Unfollowed
    /\ Includes(ListOf(last.preFing, last.actor), last.target)
    /\ Len(ListOf(last.preFing, last.actor)) = 1
    /\ ~Follows(last.actor, last.target)
    /\ Cardinality(Edges) >= 1

(* C3: toggleFollow(a, a) is answered with status 400, whether or not a has a
   User document, and changes no follower or following list; no id is ever in
   its own following or follower list. *)
C3_NoSelfFollow ==
    /\ (last.op = "follow" /\ last.actor = last.target)
          => /\ last.status = BAD_REQUEST /\ last.nres = 1 /\ last.nnext = 0
             /\ following = last.preFing /\ followers = last.preFer
    /\ \A id \in Ids : ~Follows(id, id) /\ ~FollowedBy(id, id)

C3_Witness ==
    /\ last.op = "follow" /\ last.actor = last.target /\ last.status = BAD_REQUEST
    /\ last.actor \in DOMAIN users
    /\ \E b \in Ids : Follows(last.actor, b)
    /\ \E b \in Ids : FollowedBy(last.actor, b)

(* A username or an email that a user of `us` holds, the username compared
   without regard to the casing of the submitted one *)
AlreadyHeld(us, username, email) ==
    \E id \in DOMAIN us :
        us[id].username = ToLowerCase(username) \/ us[id].email = email

FieldsPresent(in) ==
    in.name # "" /\ in.username # <<>> /\ in.password # "" /\ in.email # ""

WellFormed(in) ==
    /\ FieldsPresent(in)
    /\ in.username = ToLowerCase(in.username) /\ ~HasWhitespace(in.username)

NothingCreated ==
    users = last.preUsers /\ following = last.preFing /\ followers = last.preFer

(* C4 as claimed: register with all four fields present, a username without
   whitespace, and a username (in any casing) or an email that an existing
   user holds fails with status 409 and creates no record. *)
C4_ConflictAnyCasing ==
    (/\ last.op = "register"
     /\ FieldsPresent(last.input) /\ ~HasWhitespace(last.input.username)
     /\ AlreadyHeld(last.preUsers, last.input.username, last.input.email))
    => (last.status = CONFLICT /\ last.nnext = 1 /\ NothingCreated)

(* C4 as amended: register with a username (in any casing) or an email that an
   existing user holds fails through next(error) and creates no record; the
   status is 409 when all four fields are present and the submitted username
   is lowercase without whitespace, and 400 otherwise, so a username that
   differs from the held one in casing gets 400. *)
C4_ConflictOrValidation ==
    (last.op = "register"
        /\ AlreadyHeld(last.preUsers, last.input.username, last.input.email))
    => (/\ NothingCreated
        /\ last.nnext = 1 /\ last.nres = 0
        /\ last.status = IF WellFormed(last.input) THEN CONFLICT ELSE BAD_REQUEST)

C4_Witness ==
    /\ last.op = "register" /\ last.status = CONFLICT /\ last.nnext = 1
    /\ \E id \in DOMAIN last.preUsers :
            /\ last.preUsers[id].email = last.input.email
            /\ last.preUsers[id].username # last.input.username
    /\ users = last.preUsers

(* C5: login answers 404 through next(error) when no user has the username,
   401 through next(error) when the user exists and the password is not the
   one its stored hash was made from, and otherwise 200 with a token carrying
   that user's id and username; it changes no stored record. *)
C5_LoginOutcomes ==
    last.op = "login"
    => (/\ NothingCreated
        /\ last.nres + last.nnext = 1
        /\ (\A id \in DOMAIN last.preUsers :
                last.preUsers[id].username # last.input.username)
              => (last.status = NOT_FOUND /\ last.nnext = 1 /\ last.token = NoToken)
        /\ \A id \in DOMAIN last.preUsers :
              last.preUsers[id].username = last.input.username
              => IF last.preUsers[id].password = BcryptHash(last.input.password)
                 THEN /\ last.status = OK /\ last.nres = 1
                      /\ last.token = [id |-> id, username |-> last.input.username]
                 ELSE /\ last.status = UNAUTHORIZED /\ last.nnext = 1
                      /\ last.token = NoToken)

C5_Witness ==
    /\ last.op = "login" /\ last.status = OK /\ last.nres = 1
    /\ last.token.id \in DOMAIN users
    /\ last.token.username = users[last.token.id].username
    /\ Cardinality(DOMAIN users) = 2

(* C6: register with all fields present, a lowercase whitespace-free username
   and a fresh username and email succeeds with 201 and creates the user with
   empty lists; the stored password of a user never equals the plaintext it
   registered with; and a login with a user's username and that plaintext
   succeeds. *)
C6_RegisterThenLogin ==
    /\ \A id \in DOMAIN users :
            users[id].password # plain[id] /\ users[id].password # ""
    /\ (/\ last.op = "register" /\ WellFormed(last.input)
        /\ \A id \in DOMAIN last.preUsers :
              /\ last.preUsers[id].username # last.input.username
              /\ last.preUsers[id].email # last.input.email)
       => (/\ last.status = CREATED /\ last.nres = 1
           /\ last.actor \in DOMAIN users \ DOMAIN last.preUsers
           /\ users[last.actor].username = last.input.username
           /\ users[last.actor].email = last.input.email
           /\ users[last.actor].password # last.input.password
           /\ followers[last.actor] = <<>>
           /\ following[last.actor] = <<>>)
    /\ (/\ last.op = "login"
        /\ \E id \in DOMAIN users :
              users[id].username = last.input.username /\ plain[id] = last.input.password)
       => (/\ last.status = OK /\ last.nres = 1
           /\ users[last.token.id].username = last.input.username)

C6_Witness ==
    /\ last.op = "login" /\ last.status = OK
    /\ last.token.id \in DOMAIN users
    /\ plain[last.token.id] = last.input.password
    /\ users[last.token.id].password # last.input.password

(* C7 as claimed: updateProfile on an existing user succeeds and stores
   exactly the patched fields, leaving every other field and record as it
   was; on an absent user it fails with 404 and changes nothing. *)
C7_UpdateApplied ==
    [][\A actor \in Callers, patch \in Patches :
        UpdateUserOp(actor, patch.file, patch.name, patch.username, patch.email)
        => IF actor \in DOMAIN users
           THEN /\ last'.status = OK /\ last'.nres = 1
                /\ users' = [users EXCEPT ![actor] =
                                Patched(@, patch.file, patch.name, patch.username, patch.email)]
                /\ UNCHANGED <<followers, following>>
           ELSE /\ last'.status = NOT_FOUND /\ last'.nnext = 1
                /\ UNCHANGED store]_vars

PairConsistent(fing, fer, a, b) ==
    Includes(ListOf(fing, a), b) <=> Includes(ListOf(fer, b), a)

(* C9 as claimed: when exactly one of the two saves of a toggle succeeds, the
   request ends in next(error), the successful write is kept, and the store
   violates the symmetric follow invariant. *)
C9_PartialSaveBreaks ==
    (last.op = "follow" /\ Cardinality(last.saved) = 1)
    => (/\ last.nnext = 1 /\ last.nres = 0
        /\ ~Symmetric)

(* C9 as amended: when the store holds the pair (a, b) consistently before the
   request (b in a's following list iff a in b's follower list) and exactly
   one of the two saves succeeds, the request ends in next(error), the
   successful write is kept and the other collection is as it was, and the
   pair is inconsistent afterwards. *)
C9_PartialSaveBreaksConsistentPair ==
    (/\ last.op = "follow" /\ Cardinality(last.saved) = 1
     /\ PairConsistent(last.preFing, last.preFer, last.actor, last.target))
    => (/\ last.nnext = 1 /\ last.nres = 0
        /\ "following" \in last.saved
              => (following # last.preFing /\ followers = last.preFer)
        /\ "followers" \in last.saved
              => (followers # last.preFer /\ following = last.preFing)
        /\ ~PairConsistent(following, followers, last.actor, last.target)
        /\ ~Symmetric)

C9_Witness ==
    /\ last.op = "follow" /\ last.nnext = 1 /\ last.saved = {"following"}
    /\ PairConsistent(last.preFing, last.preFer, last.actor, last.target)
    /\ Includes(ListOf(last.preFing, last.actor), last.target)
    /\ ~PairConsistent(following, followers, last.actor, last.target)

(* C10 as claimed: every request ends with exactly one of a written response
   and a failure forwarded to next(error), a failure of the token signature
   included. *)
C10_ExactlyOneOutcome ==
    last.op # "none" => last.nres + last.nnext = 1

AllDone == \A s \in Slots : reqs[s].pc = "done"

(* C8: concurrent toggles read, decide and write without coordination: a
   request decides from the following list it read itself and keeps that
   decision and its two documents whatever is written meanwhile, and each of
   its saves replaces one document with its own copy and leaves the other
   collection alone; the witness is a store left asymmetric after two
   requests on the same target have both answered 200. *)
C8_UncoordinatedToggles ==
    [][/\ ~AllIdle => (following' = following \/ followers' = followers)
       /\ \A s \in Slots :
            /\ (reqs[s].pc = "findFollowing" /\ reqs'[s].pc = "save")
                  => reqs'[s].isFollowing
                        = Includes(ListOf(following, reqs[s].actor), reqs[s].target)
            /\ (reqs[s].pc = "save" /\ reqs'[s].pc = "save")
                  => /\ reqs'[s].isFollowing = reqs[s].isFollowing
                     /\ reqs'[s].followingList = reqs[s].followingList
                     /\ reqs'[s].followerList = reqs[s].followerList
            /\ (reqs[s].pc = "save" /\ ~reqs[s].fingSaved /\ reqs'[s].fingSaved)
                  => /\ following' = (reqs[s].actor :> reqs[s].followingList) @@ following
                     /\ followers' = followers
            /\ (reqs[s].pc = "save" /\ ~reqs[s].ferSaved /\ reqs'[s].ferSaved)
                  => /\ followers' = (reqs[s].target :> reqs[s].followerList) @@ followers
                     /\ following' = following
            /\ (reqs[s].pc = "save" /\ reqs'[s].pc = "done")
                  => /\ reqs'[s].status = OK /\ reqs'[s].nres = 1 /\ reqs'[s].nnext = 0
                     /\ reqs'[s].msg = FollowMessage(reqs[s].isFollowing)]_vars

C8_Witness ==
    /\ AllDone
    /\ \A s \in Slots : reqs[s].status = OK /\ reqs[s].nres = 1
    /\ \A s, t \in Slots : reqs[s].target = reqs[t].target
    /\ ~Symmetric

====
